---------------------------- MODULE Spec2Model ----------------------------
(***************************************************************************)
(* Modbus RTU master scripts of luxpower_485:                              *)
(*   modbus_dump_holding.py  (function 0x03, dump_range)                   *)
(*   modbus_dump_input.py    (function 0x04, range loop in main)           *)
(*   dump_ongoing.py         (function 0x04, read_registers)               *)
(*   modbus_read_one.py      (one read, parse in main)                     *)
(* Frames are sequences of bytes; the checksum is computed bit by bit as   *)
(* the scripts compute it.                                                 *)
(***************************************************************************)
EXTENDS Integers, Sequences, FiniteSets, TLC

VARIABLES
    \* ---- one transaction (all four scripts)
    fn,          \* which script's transaction function runs
    slave,       \* responder address of the request
    func,        \* function code of the request (3 holding, 4 input)
    t_start,     \* first register of the request
    t_qty,       \* register count of the request
    tx,          \* the request frames written
    rx,          \* the bytes that reach the master before its reads time out
    result,      \* what the transaction function returned / reported
    tpc,         \* "idle", "call", "reset", "wait", "ret"; "build", "sent"; "crc"; "args", "built"; "for"
    attempt,     \* modbus_read_one.py: the loop variable of the retry loop
    retries,     \* modbus_read_one.py: --retries
    \* ---- the range loop (dump_range / main of modbus_dump_input.py)
    script,      \* "holding" or "input"
    start,       \* --start
    count,       \* --count
    max_chunk,   \* --chunk as given on the command line
    stop_on_illegal,
    quiet_errors,
    addr,        \* cursor
    remaining,   \* input: registers left; holding: end - addr
    chunk,       \* the mutable chunk (chunk / args.chunk)
    new_qty,     \* holding: size of the immediate retry
    pc,          \* "loop", "wait", "retry", "rwait", "done", "idle"
    out,         \* the r=... lines printed: <<address, value>>
    nlog,        \* failure reports printed
    stopped,     \* address of the "stopping at addr=" report, or -1
    \* ---- the responder the range loop talks to
    mode,        \* "good", "one", "pair", "dead", "flaky"
    bad,         \* the failing address in mode "one", the first of the two in mode "pair"
    fault,       \* the kind of reply a failing request gets
    \* ---- history of the range loop's transactions
    ntxn,        \* requests written
    nfail,       \* transactions that returned an error
    last,        \* the last transaction: [addr, qty, ok, retry]
    first1,      \* nfail when the first size-1 request at bad was written, or -1
    fail1,       \* address of the first size-1 transaction that failed, or -1
    \* ---- the channel of the range loop and of the polling loop
    outstanding, \* requests written whose transaction has not returned yet
    reply,       \* the kind of reply on its way to the master, or "none"
    \* ---- the polling loop (main of dump_ongoing.py)
    running,     \* the global flag the signal handler clears
    ppc,         \* "top", "block", "bwait", "sink", "sleep", "closed", "crashed", "idle"
    blk,         \* index into REGISTERS_TO_READ of the block being read
    all_data,    \* read_all_registers: the addresses collected so far
    read_count,  \* rows written by this run
    rows,        \* rows appended to the CSV file
    nerr,        \* "ERROR: Failed to read registers" lines printed
    ticks,       \* seconds left of the sleep between two iterations
    \* ---- history of the polling loop
    iters,       \* iterations started
    nsucc,       \* block reads of this iteration that returned a dict
    lastrow,     \* what this iteration handed to the sink: "none", "row", "error"
    reads        \* history: <<iteration, block>> for every block read that succeeded

txnVars == <<fn, slave, func, t_start, t_qty, tx, rx, result, tpc, attempt, retries>>
rangeVars == <<script, start, count, max_chunk, stop_on_illegal, quiet_errors,
               addr, remaining, chunk, new_qty, pc, out, nlog, stopped>>
respVars == <<mode, bad, fault>>
histVars == <<ntxn, nfail, last, first1, fail1>>
chanVars == <<outstanding, reply>>
pollVars == <<running, ppc, blk, all_data, read_count, rows, nerr, ticks,
              iters, nsucc, lastrow, reads>>
vars == <<txnVars, rangeVars, respVars, histVars, chanVars, pollVars>>

Min(a, b) == IF a < b THEN a ELSE b
Max(a, b) == IF a > b THEN a ELSE b

(***************************************************************************)
(* Bounds of the model.                                                    *)
(***************************************************************************)
MaxQty == 2        \* registers per request in the single-transaction runs
MaxCount == 6      \* --count of the range loop
MaxChunk == 6      \* --chunk of the range loop
MaxTxn == 40       \* transactions of one run of the range loop

(***************************************************************************)
(* Checksum.                                                               *)
(***************************************************************************)
\* a ^ b on naturals, bit by bit
Xor[a \in Nat, b \in Nat] ==
    IF b = 0 THEN a
    ELSE IF a = 0 THEN b
    ELSE (((a % 2) + (b % 2)) % 2) + 2 * Xor[a \div 2, b \div 2]

\* one round of the inner loop: crc = (crc >> 1) ^ 0xA001 if (crc & 1) else (crc >> 1)
crcShift[crc \in Nat] ==
    IF crc % 2 = 1 THEN Xor[crc \div 2, 40961] ELSE crc \div 2

\* crc ^= b, then the 8 rounds
crcByte[crc \in Nat, b \in Nat] ==
    crcShift[crcShift[crcShift[crcShift[crcShift[crcShift[crcShift[crcShift[Xor[crc, b]]]]]]]]]

RECURSIVE crcAt(_, _)
crcAt(data, i) == IF i = 0 THEN 65535 ELSE crcByte[crcAt(data, i - 1), data[i]]

\* a checksum that would come out with its two bytes exchanged
crc16_swapped(data) ==
    LET c == crcAt(data, Len(data)) % 65536
    IN  (c % 256) * 256 + c \div 256

\* modbus_dump_holding.py: if crc & 1: ... else: crc >>= 1; return crc & 0xFFFF
crc16_modbus(data) == crcAt(data, Len(data)) % 65536

\* the copies of modbus_dump_input.py, dump_ongoing.py and modbus_read_one.py
\* (the same text in the three): the inner loop is one conditional expression
crcShiftExpr[crc \in Nat] ==
    IF crc % 2 = 1 THEN Xor[crc \div 2, 40961] ELSE crc \div 2

crcByteExpr[crc \in Nat, b \in Nat] ==
    LET c0 == Xor[crc, b]
    IN  crcShiftExpr[crcShiftExpr[crcShiftExpr[crcShiftExpr[
            crcShiftExpr[crcShiftExpr[crcShiftExpr[crcShiftExpr[c0]]]]]]]]

RECURSIVE crcAtExpr(_, _)
crcAtExpr(data, i) == IF i = 0 THEN 65535 ELSE crcByteExpr[crcAtExpr(data, i - 1), data[i]]

crc16_modbus_expr(data) == crcAtExpr(data, Len(data)) % 65536

(***************************************************************************)
(* Request frames.                                                         *)
(***************************************************************************)
\* the six header bytes followed by crc low, crc high
WithCrc(p) ==
    LET c == crc16_modbus(p)
    IN  p \o <<c % 256, (c \div 256) % 256>>

build_read_holding_req(s, a, q) ==
    WithCrc(<<s % 256, 3, (a \div 256) % 256, a % 256, (q \div 256) % 256, q % 256>>)

\* modbus_dump_input.py and dump_ongoing.py: the slave byte is not masked
build_req(s, a, q) ==
    WithCrc(<<s, 4, (a \div 256) % 256, a % 256, (q \div 256) % 256, q % 256>>)

\* modbus_read_one.py
build_req_one(s, f, a, q) ==
    WithCrc(<<s % 256, f % 256, (a \div 256) % 256, a % 256, (q \div 256) % 256, q % 256>>)

(***************************************************************************)
(* Reading from the channel.  rx holds the bytes that arrive in time; got  *)
(* is the number already consumed.                                         *)
(***************************************************************************)
read_exact(stream, got, n) == SubSeq(stream, got + 1, Min(got + n, Len(stream)))

\* func & 0x80 on a byte
HighBit(b) == (b \div 128) % 2 = 1

\* a decoder that would take the low byte first
regs_low_first(data) == [i \in 1..(Len(data) \div 2) |-> data[2 * i - 1] + data[2 * i] * 256]

\* (data[i] << 8) | data[i + 1] for i in range(0, len(data), 2); len(data) even
regs_of(data) == [i \in 1..(Len(data) \div 2) |-> data[2 * i - 1] * 256 + data[2 * i]]

\* rest[-2] | (rest[-1] << 8)
crc_rx_of(frame) == frame[Len(frame) - 1] + 256 * frame[Len(frame)]

\* frame[:-2]
body_of(frame) == SubSeq(frame, 1, Len(frame) - 2)

Res(kind, regs, code, crc, nread) ==
    [kind |-> kind, regs |-> regs, code |-> code, crc |-> crc, nread |-> nread]


(***************************************************************************)
(* The transaction functions, after the request was written.  Each returns *)
(* a record: kind is the error tag of the code ("OK" for success), regs    *)
(* the decoded registers, code the exception code (-1: none), crc what the *)
(* checksum comparison gave ("ok", "bad", "unchecked"), nread the number   *)
(* of bytes taken from the channel.                                        *)
(***************************************************************************)
\* modbus_dump_holding.py
read_holding_chunk(s, a, q, stream) ==
    LET head == read_exact(stream, 0, 2)
    IN
    IF Len(head) < 2 THEN Res("TIMEOUT_OR_SHORT", <<>>, -1, "unchecked", Len(head))
    ELSE IF head[1] # s % 256
    THEN Res("DESYNC", <<>>, -1, "unchecked", 2 + Len(read_exact(stream, 2, 64)))
    ELSE IF HighBit(head[2])
    THEN LET rest == read_exact(stream, 2, 3)
             frame == head \o rest
         IN  IF Len(rest) < 3
             THEN Res("EXC_SHORT", <<>>, -1, "unchecked", Len(frame))
             ELSE IF crc_rx_of(frame) # crc16_modbus(body_of(frame))
             THEN Res("EXC_BADCRC", <<>>, rest[1], "bad", Len(frame))
             ELSE Res("EXCEPTION", <<>>, rest[1], "ok", Len(frame))
    ELSE LET bcnt_b == read_exact(stream, 2, 1)
         IN
         IF Len(bcnt_b) < 1 THEN Res("SHORT", <<>>, -1, "unchecked", 2)
         ELSE LET bcnt == bcnt_b[1]
                  rest == read_exact(stream, 3, bcnt + 2)
                  frame == head \o bcnt_b \o rest
              IN  IF Len(rest) < bcnt + 2
                  THEN Res("SHORT", <<>>, -1, "unchecked", Len(frame))
                  ELSE IF crc_rx_of(frame) # crc16_modbus(body_of(frame))
                  THEN Res("BADCRC", <<>>, -1, "bad", Len(frame))
                  ELSE IF bcnt # q * 2
                  THEN Res("BADCNT", <<>>, -1, "ok", Len(frame))
                  ELSE Res("OK", regs_of(SubSeq(rest, 1, bcnt)), -1, "ok", Len(frame))

\* modbus_dump_input.py
read_block(s, a, q, stream) ==
    LET head == read_exact(stream, 0, 3)
    IN
    IF Len(head) < 3 THEN Res("TIMEOUT_OR_SHORT", <<>>, -1, "unchecked", Len(head))
    ELSE IF HighBit(head[2])
    THEN LET rest == read_exact(stream, 3, 2)
         IN  IF Len(rest) # 2
             THEN Res("EXCEPTION", <<>>, -1, "unchecked", 3 + Len(rest))
             ELSE Res("EXCEPTION", <<>>, head[3],
                      IF crc16_modbus(head) = rest[1] + 256 * rest[2] THEN "ok" ELSE "bad",
                      5)
    ELSE LET bc == head[3]
             rest == read_exact(stream, 3, bc + 2)
             frame == head \o rest
         IN  IF Len(rest) # bc + 2
             THEN Res("TIMEOUT_OR_SHORT", <<>>, -1, "unchecked", Len(frame))
             ELSE IF crc16_modbus(body_of(frame)) # crc_rx_of(frame)
             THEN Res("CRC", <<>>, -1, "bad", Len(frame))
             ELSE IF bc % 2 = 1
             THEN Res("IndexError", <<>>, -1, "ok", Len(frame))
             ELSE Res("OK", regs_of(SubSeq(frame, 4, Len(frame) - 2)), -1, "ok", Len(frame))

\* dump_ongoing.py: None on error, else the dict start + i -> value (kept as
\* the sequence of its values)
read_registers(s, a, q, stream) ==
    LET head == read_exact(stream, 0, 3)
    IN
    IF Len(head) < 3 THEN Res("None", <<>>, -1, "unchecked", Len(head))
    ELSE IF HighBit(head[2])
    THEN Res("None", <<>>, -1, "unchecked", 3 + Len(read_exact(stream, 3, 2)))
    ELSE LET bc == head[3]
             rest == read_exact(stream, 3, bc + 2)
             frame == head \o rest
         IN  IF Len(rest) # bc + 2
             THEN Res("None", <<>>, -1, "unchecked", Len(frame))
             ELSE IF crc16_modbus(body_of(frame)) # crc_rx_of(frame)
             THEN Res("None", <<>>, -1, "bad", Len(frame))
             ELSE IF bc % 2 = 1
             THEN Res("IndexError", <<>>, -1, "ok", Len(frame))
             ELSE Res("OK", regs_of(SubSeq(frame, 4, Len(frame) - 2)), -1, "ok", Len(frame))

\* modbus_read_one.py, one attempt with no retry left: kind is the report
\* printed
read_one(s, a, q, stream) ==
    LET head == read_exact(stream, 0, 3)
    IN
    IF Len(head) < 3 THEN Res("NO RESPONSE (header)", <<>>, -1, "unchecked", Len(head))
    ELSE IF HighBit(head[2])
    THEN LET tail == read_exact(stream, 3, 2)
             resp == head \o tail
         IN  IF Len(tail) < 2
             THEN Res("SHORT EXCEPTION", <<>>, -1, "unchecked", Len(resp))
             ELSE Res("EXCEPTION", <<>>, head[3],
                      IF crc16_modbus(body_of(resp)) = crc_rx_of(resp) THEN "ok" ELSE "bad",
                      5)
    ELSE LET bytecount == head[3]
             tail == read_exact(stream, 3, bytecount + 2)
             resp == head \o tail
         IN  IF Len(tail) < bytecount + 2
             THEN Res("SHORT RESPONSE", <<>>, -1, "unchecked", Len(resp))
             ELSE IF bytecount % 2 = 1
             THEN Res("IndexError", <<>>, -1,
                      IF crc16_modbus(body_of(resp)) = crc_rx_of(resp) THEN "ok" ELSE "bad",
                      Len(resp))
             ELSE Res("OK", regs_of(SubSeq(resp, 4, 3 + bytecount)), -1,
                      IF crc16_modbus(body_of(resp)) = crc_rx_of(resp) THEN "ok" ELSE "bad",
                      Len(resp))

Scripts == {"holding", "input", "ongoing", "one"}

\* the function code each script puts in its request
FuncOf(f) == IF f = "holding" THEN 3 ELSE 4

\* the request frame a script writes
Request(f, s, fc, a, q) ==
    CASE f = "holding" -> build_read_holding_req(s, a, q)
      [] f = "input" -> build_req(s, a, q)
      [] f = "ongoing" -> build_req(s, a, q)
      [] f = "one" -> build_req_one(s, fc, a, q)

\* the transaction function of a script
Transaction(f, s, a, q, stream) ==
    CASE f = "holding" -> read_holding_chunk(s, a, q, stream)
      [] f = "input" -> read_block(s, a, q, stream)
      [] f = "ongoing" -> read_registers(s, a, q, stream)
      [] f = "one" -> read_one(s, a, q, stream)


(***************************************************************************)
(* The responder and the line.  A reply is a frame with a checksum, right  *)
(* or wrong, of which a prefix arrives before the master's reads time out. *)
(***************************************************************************)
Slaves == {1, 17}
OtherSlave(s) == IF s = 1 THEN 17 ELSE 1
TStarts == {101}
DataSeeds == {0, 200}
ExcCodes == {2}

\* bytes of an exchange given up earlier that may still sit in the inbound buffer
StaleBytes == {<<>>, <<1, 3>>, <<1, 4, 2, 0, 7>>}

\* n data bytes
Data(n, seed) == [i \in 1..n |-> (seed + 37 * i) % 256]

\* the frame with its checksum; a damaged frame has another checksum
Frame(p, crc_good) ==
    LET c == IF crc_good THEN crc16_modbus(p) ELSE (crc16_modbus(p) + 1) % 65536
    IN  p \o <<c % 256, (c \div 256) % 256>>

\* normal replies: any byte count up to one past the largest request
NormalReplies(s, fc) ==
    { Frame(<<ra, fc, bc>> \o Data(bc, seed), g) :
        ra \in {s, OtherSlave(s)}, bc \in 0..(2 * MaxQty + 1),
        seed \in DataSeeds, g \in BOOLEAN }

\* exception replies: function code with the high bit set, then the code
ExceptionReplies(s, fc) ==
    { Frame(<<ra, fc + 128, code>>, g) :
        ra \in {s, OtherSlave(s)}, code \in ExcCodes, g \in BOOLEAN }

Prefixes(f) == { SubSeq(f, 1, n) : n \in 0..Len(f) }

\* everything that can reach the master after one request
Replies(s, fc) ==
    UNION { Prefixes(f) : f \in NormalReplies(s, fc) \cup ExceptionReplies(s, fc) }

\* the replies to each request, by address and function code
Funcs == {3, 4}
ReplyTable == [s \in Slaves, fc \in Funcs |-> Replies(s, fc)]

(***************************************************************************)
(* One transaction of one script.                                          *)
(***************************************************************************)
IdleRange ==
    /\ script = "none" /\ start = 0 /\ count = 0 /\ max_chunk = 0
    /\ stop_on_illegal = FALSE /\ quiet_errors = FALSE
    /\ addr = 0 /\ remaining = 0 /\ chunk = 0 /\ new_qty = 0
    /\ pc = "idle" /\ out = <<>> /\ nlog = 0 /\ stopped = -1
    /\ mode = "none" /\ bad = -1 /\ fault = "none"
    /\ ntxn = 0 /\ nfail = 0 /\ first1 = -1 /\ fail1 = -1
    /\ last = [addr |-> -1, qty |-> 0, ok |-> TRUE, retry |-> FALSE, kind |-> "none"]

NoResult == Res("none", <<>>, -1, "unchecked", 0)

\* nothing written on the channel of a loop
IdleChan == outstanding = 0 /\ reply = "none"

\* the polling loop is not running
IdlePoll ==
    /\ running = FALSE /\ ppc = "idle" /\ blk = 0 /\ all_data = {}
    /\ read_count = 0 /\ rows = 0 /\ nerr = 0 /\ ticks = 0
    /\ iters = 0 /\ nsucc = 0 /\ lastrow = "none" /\ reads = {}

InitTxn ==
    /\ fn \in Scripts
    /\ slave \in Slaves
    /\ func \in (IF fn = "one" THEN Funcs ELSE {FuncOf(fn)})
    /\ t_start \in TStarts
    /\ t_qty \in 1..MaxQty
    /\ tx = <<>>
    /\ rx \in StaleBytes
    /\ result = NoResult
    /\ tpc = "call"
    /\ attempt = 0 /\ retries = 0
    /\ IdleRange
    /\ IdleChan
    /\ IdlePoll

\* a reset that would leave the inbound buffer as it is
buffer_kept(buf) == buf

\* ser.reset_input_buffer(): what is buffered in the inbound direction is dropped
reset_input_buffer(buf) == <<>>

\* the transaction begins by discarding the inbound buffer
T_Reset ==
    /\ tpc = "call"
    /\ rx' = reset_input_buffer(rx)
    /\ tpc' = "reset"
    /\ UNCHANGED <<fn, slave, func, t_start, t_qty, attempt, retries, tx, result>>
    /\ UNCHANGED <<rangeVars, respVars, histVars, chanVars, pollVars>>

\* ser.write(req): the request goes out and the line delivers some reply
\* behind whatever the inbound buffer holds
T_Write ==
    /\ tpc = "reset"
    /\ tx' = Append(tx, Request(fn, slave, func, t_start, t_qty))
    /\ \E bytes \in ReplyTable[slave, func] : rx' = rx \o bytes
    /\ tpc' = "wait"
    /\ UNCHANGED <<fn, slave, func, t_start, t_qty, attempt, retries, result>>
    /\ UNCHANGED <<rangeVars, respVars, histVars, chanVars, pollVars>>

\* the reads and the parse, up to the return
T_Read ==
    /\ tpc = "wait"
    /\ result' = Transaction(fn, slave, t_start, t_qty, rx)
    /\ tpc' = "ret"
    /\ UNCHANGED <<fn, slave, func, t_start, t_qty, attempt, retries, tx, rx>>
    /\ UNCHANGED <<rangeVars, respVars, histVars, chanVars, pollVars>>

NextTxn == T_Reset \/ T_Write \/ T_Read

SpecTxn == InitTxn /\ [][NextTxn]_vars


(***************************************************************************)
(* The range loop: dump_range of modbus_dump_holding.py and the while loop *)
(* in main of modbus_dump_input.py.                                        *)
(***************************************************************************)
RangeScripts == {"holding", "input"}
RSlave == 1
Starts == {101}
FaultKinds == {"silent", "exception", "badcrc", "short"}
ReplyKinds == {"good", "silent", "exception", "badcrc", "short"}
Modes == {"good", "one", "pair", "dead", "flaky"}

\* the registers of the responder
RegVal(r) == (7 * r + 1000) % 65536

\* the data bytes of registers a .. a+q-1, high byte first
RegBytes(a, q) ==
    [i \in 1..(2 * q) |->
        IF i % 2 = 1 THEN RegVal(a + (i - 1) \div 2) \div 256
                     ELSE RegVal(a + (i - 2) \div 2) % 256]

\* what reaches the master after the request (s, fc, a, q)
RangeReply(s, fc, a, q, k) ==
    CASE k = "good" -> Frame(<<s, fc, 2 * q>> \o RegBytes(a, q), TRUE)
      [] k = "silent" -> <<>>
      [] k = "exception" -> Frame(<<s, fc + 128, 2>>, TRUE)
      [] k = "badcrc" -> Frame(<<s, fc, 2 * q>> \o RegBytes(a, q), FALSE)
      [] k = "short" -> SubSeq(Frame(<<s, fc, 2 * q>> \o RegBytes(a, q), TRUE), 1, 2 * q + 4)

\* the largest range and chunk of the runs: the bounds, and the documented
\* scenario [101, 109) with chunk 8
TopCount == Max(MaxCount, 8)
TopChunk == Max(MaxChunk, 8)
RangeAddrs == 101..(100 + TopCount)

\* the outcome of every transaction the range loop can make
TxnTable ==
    [f \in RangeScripts, a \in RangeAddrs, q \in 1..TopChunk, k \in ReplyKinds |->
        Transaction(f, RSlave, a, q, RangeReply(RSlave, FuncOf(f), a, q, k))]

\* the replies the responder may give to a request for a .. a+q-1
\* the replies a responder of mode m can give to the request for a .. a+q-1:
\* "one" fails every request that covers register b, "pair" every request
\* that covers only one of the registers b and b + 1 (a 32-bit value read
\* whole or not at all), "dead" every request; "flaky" answers as it likes
ReplyKindsOf(m, b, f, a, q) ==
    CASE m = "good" -> {"good"}
      [] m = "one" -> IF b \in a..(a + q - 1) THEN {f} ELSE {"good"}
      [] m = "pair" -> IF (b \in a..(a + q - 1)) # (b + 1 \in a..(a + q - 1))
                       THEN {f} ELSE {"good"}
      [] m = "dead" -> {f}
      [] m = "flaky" -> ReplyKinds

\* a slow responder answers every request rightly, in time or not: when
\* the request before had no answer of its own in time, that answer may come
\* in after the discard and the write of this transaction
LateKinds == {"good", "silent"} \cup (IF last.kind \in {"silent", "late"} THEN {"late"} ELSE {})

ReplyKindsNow(a, q) ==
    IF mode = "late" THEN LateKinds ELSE ReplyKindsOf(mode, bad, fault, a, q)

\* what the transaction function returns for the bytes that have come in
Outcome(f, a, q) ==
    IF reply = "late"
    THEN Transaction(f, RSlave, a, q, RangeReply(RSlave, FuncOf(f), last.addr, last.qty, "good"))
    ELSE TxnTable[f, a, q, reply]

\* a loop that would not clamp the last chunk to the end of the range
qty_unclamped(c, rem) == c

\* qty = min(chunk, end - addr) / min(args.chunk, remaining)
next_qty(c, rem) == Min(c, rem)

\* a loop that would retry with the size that has just failed
qty_kept(q) == q

\* a loop that would retry with one register more
qty_grown(q) == q + 1

\* new_qty = max(1, qty // 2)
halve(q) == Max(1, q \div 2)

\* addr += qty after a success
advance(a, q) == a + q

\* a loop that would step over two addresses after a size-1 failure
skip_two(a) == a + 2

\* addr += 1 after a size-1 failure
skip_one(a) == a + 1

\* the r=... lines of one successful read
printed(a, regs) == [i \in 1..Len(regs) |-> <<a + i - 1, regs[i]>>]

\* a dump_range that would print no error report at all
report_nothing(n) == n

\* an error report of dump_range, printed unless --quiet-errors
report(n) == IF quiet_errors THEN n ELSE n + 1

IdleTxn ==
    /\ t_start = 0 /\ t_qty = 0 /\ tx = <<>> /\ rx = <<>>
    /\ result = NoResult /\ tpc = "idle"
    /\ attempt = 0 /\ retries = 0

NoLast == [addr |-> -1, qty |-> 0, ok |-> TRUE, retry |-> FALSE, kind |-> "none"]

InitLoop ==
    /\ fn = script
    /\ slave = RSlave
    /\ func = FuncOf(script)
    /\ IdleTxn
    /\ quiet_errors \in (IF script = "holding" THEN BOOLEAN ELSE {FALSE})
    /\ addr = start /\ remaining = count /\ chunk = max_chunk /\ new_qty = 0
    /\ pc = "loop" /\ out = <<>> /\ nlog = 0 /\ stopped = -1
    /\ ntxn = 0 /\ nfail = 0 /\ first1 = -1 /\ fail1 = -1 /\ last = NoLast
    /\ IdleChan
    /\ IdlePoll

\* every command line within the bounds, against every responder
InitBounded ==
    /\ script \in RangeScripts
    /\ start \in Starts
    /\ count \in 1..MaxCount
    /\ max_chunk \in 1..MaxChunk
    /\ stop_on_illegal \in BOOLEAN
    /\ mode \in Modes
    /\ bad \in (IF mode \in {"one", "pair"} THEN start..(start + count - 1) ELSE {-1})
    /\ fault \in (IF mode \in {"one", "pair", "dead"} THEN FaultKinds ELSE {"none"})
    /\ InitLoop

\* the documented scenario: range [101, 109), chunk 8, register 105 failing
InitScenario ==
    /\ script \in RangeScripts
    /\ start = 101 /\ count = 8 /\ max_chunk = 8
    /\ stop_on_illegal \in BOOLEAN
    /\ mode = "one" /\ bad = 105
    /\ fault \in FaultKinds
    /\ InitLoop

InitRange == InitBounded \/ InitScenario

\* the history of one transaction for a .. a+q-1 (what came back is kept
\* only against the slow responder, whose next reply depends on it)
Record(a, q, ok, retry) ==
    /\ ntxn < MaxTxn
    /\ ntxn' = ntxn + 1
    /\ nfail' = IF ok THEN nfail ELSE nfail + 1
    /\ last' = [addr |-> a, qty |-> q, ok |-> ok, retry |-> retry,
                kind |-> IF mode = "late" THEN reply ELSE "none"]
    /\ first1' = IF first1 = -1 /\ q = 1 /\ a = bad THEN nfail ELSE first1
    /\ fail1' = IF fail1 = -1 /\ q = 1 /\ ~ok THEN a ELSE fail1

RangeFixed == <<script, start, count, max_chunk, stop_on_illegal, quiet_errors>>

\* a transaction function that would return as soon as the request is written
not_awaiting(p) == p

\* after ser.write the caller is inside read_exact until the reply or the timeout
awaiting(p) ==
    CASE p = "loop" -> "wait"
      [] p = "retry" -> "rwait"
      [] p = "block" -> "bwait"

\* the request of a transaction goes out on the channel
Written(a, q) ==
    /\ \E k \in ReplyKindsNow(a, q) : reply' = k
    /\ outstanding' = outstanding + 1
    /\ pc' = awaiting(pc)

\* the transaction returns
Returned ==
    /\ outstanding' = outstanding - 1
    /\ reply' = "none"

\* dump_range: top of the while loop, read_holding_chunk called with qty
H_Call ==
    /\ script = "holding" /\ pc = "loop"
    /\ addr < start + count
    /\ Written(addr, next_qty(chunk, start + count - addr))
    /\ UNCHANGED <<RangeFixed, addr, remaining, chunk, new_qty, out, nlog, stopped>>
    /\ UNCHANGED <<txnVars, respVars, histVars, pollVars>>

\* dump_range: the rest of the pass, up to the immediate retry
H_Read ==
    /\ script = "holding" /\ pc = "wait"
    /\ LET qty == next_qty(chunk, start + count - addr)
           r == Outcome(script, addr, qty)
       IN  /\ Record(addr, qty, r.kind = "OK", FALSE)
           /\ IF r.kind = "OK"
              THEN /\ out' = out \o printed(addr, r.regs)
                   /\ addr' = advance(addr, qty)
                   /\ pc' = "loop"
                   /\ UNCHANGED <<chunk, new_qty, nlog, stopped>>
              ELSE IF qty > 1
              THEN /\ new_qty' = halve(qty)
                   /\ nlog' = report(nlog)
                   /\ chunk' = Max(1, Min(chunk, qty))
                   /\ pc' = "retry"
                   /\ UNCHANGED <<addr, out, stopped>>
              ELSE /\ nlog' = report(nlog)
                   /\ IF stop_on_illegal
                      THEN /\ stopped' = addr
                           /\ pc' = "done"
                           /\ UNCHANGED addr
                      ELSE /\ addr' = skip_one(addr)
                           /\ pc' = "loop"
                           /\ UNCHANGED stopped
                   /\ UNCHANGED <<chunk, new_qty, out>>
    /\ Returned
    /\ UNCHANGED <<RangeFixed, remaining, txnVars, respVars, pollVars>>

\* dump_range: read_holding_chunk called once more, with new_qty
H_RetryCall ==
    /\ script = "holding" /\ pc = "retry"
    /\ Written(addr, new_qty)
    /\ UNCHANGED <<RangeFixed, addr, remaining, chunk, new_qty, out, nlog, stopped>>
    /\ UNCHANGED <<txnVars, respVars, histVars, pollVars>>

\* the outcome of the read with new_qty, then back to the top of the loop
H_Retry ==
    /\ script = "holding" /\ pc = "rwait"
    /\ LET r == Outcome(script, addr, new_qty)
       IN  /\ Record(addr, new_qty, r.kind = "OK", TRUE)
           /\ IF r.kind = "OK"
              THEN /\ out' = out \o printed(addr, r.regs)
                   /\ addr' = advance(addr, new_qty)
                   /\ UNCHANGED chunk
              ELSE /\ chunk' = Max(1, new_qty)
                   /\ UNCHANGED <<addr, out>>
    /\ pc' = "loop"
    /\ Returned
    /\ UNCHANGED <<RangeFixed, remaining, new_qty, nlog, stopped>>
    /\ UNCHANGED <<txnVars, respVars, pollVars>>

\* addr reached end: dump_range returns and main closes the port
H_Exit ==
    /\ script = "holding" /\ pc = "loop"
    /\ addr >= start + count
    /\ pc' = "done"
    /\ UNCHANGED <<RangeFixed, addr, remaining, chunk, new_qty, out, nlog, stopped>>
    /\ UNCHANGED <<txnVars, respVars, histVars, chanVars, pollVars>>

\* modbus_dump_input.py: top of the while loop, read_block called with qty
I_Call ==
    /\ script = "input" /\ pc = "loop"
    /\ remaining > 0
    /\ Written(addr, next_qty(chunk, remaining))
    /\ UNCHANGED <<RangeFixed, addr, remaining, chunk, new_qty, out, nlog, stopped>>
    /\ UNCHANGED <<txnVars, respVars, histVars, pollVars>>

\* modbus_dump_input.py: the rest of the pass
I_Read ==
    /\ script = "input" /\ pc = "wait"
    /\ LET qty == next_qty(chunk, remaining)
           r == Outcome(script, addr, qty)
       IN  /\ Record(addr, qty, r.kind = "OK", FALSE)
           /\ IF r.kind = "OK"
              THEN /\ out' = out \o printed(addr, r.regs)
                   /\ addr' = advance(addr, qty)
                   /\ remaining' = remaining - qty
                   /\ pc' = "loop"
                   /\ UNCHANGED <<chunk, nlog, stopped>>
              ELSE /\ nlog' = nlog + 1
                   /\ IF qty > 1
                      THEN /\ chunk' = halve(qty)
                           /\ pc' = "loop"
                           /\ UNCHANGED <<addr, remaining, stopped>>
                      ELSE IF stop_on_illegal
                      THEN /\ stopped' = addr
                           /\ pc' = "done"
                           /\ UNCHANGED <<addr, remaining, chunk>>
                      ELSE /\ addr' = skip_one(addr)
                           /\ remaining' = remaining - 1
                           /\ pc' = "loop"
                           /\ UNCHANGED <<chunk, stopped>>
                   /\ UNCHANGED out
    /\ Returned
    /\ UNCHANGED <<RangeFixed, new_qty, txnVars, respVars, pollVars>>

\* remaining reached 0: the loop ends and the port is closed
I_Exit ==
    /\ script = "input" /\ pc = "loop"
    /\ remaining <= 0
    /\ pc' = "done"
    /\ UNCHANGED <<RangeFixed, addr, remaining, chunk, new_qty, out, nlog, stopped>>
    /\ UNCHANGED <<txnVars, respVars, histVars, chanVars, pollVars>>

\* the whole loop of modbus_dump_input.py against a responder that answers
\* the same request the same way: what it prints and where it stops
run_input[a \in Nat, rem \in Nat, c \in Nat, stp \in BOOLEAN, m \in Modes, b \in Int, f \in STRING] ==
    IF rem <= 0
    THEN [out |-> <<>>, stopped |-> -1]
    ELSE LET qty == next_qty(c, rem)
             k == CHOOSE x \in ReplyKindsOf(m, b, f, a, qty) : TRUE
             r == TxnTable["input", a, qty, k]
         IN  IF r.kind = "OK"
             THEN LET t == run_input[advance(a, qty), rem - qty, c, stp, m, b, f]
                  IN  [out |-> printed(a, r.regs) \o t.out, stopped |-> t.stopped]
             ELSE IF qty > 1
             THEN run_input[a, rem, halve(qty), stp, m, b, f]
             ELSE IF stp
             THEN [out |-> <<>>, stopped |-> a]
             ELSE run_input[skip_one(a), rem - 1, c, stp, m, b, f]

NextRange ==
    \/ H_Call \/ H_Read \/ H_RetryCall \/ H_Retry \/ H_Exit
    \/ I_Call \/ I_Read \/ I_Exit

SpecRange == InitRange /\ [][NextRange]_vars

\* the loop is never suspended for good: each pass is a bounded read
FairRange == SpecRange /\ WF_vars(NextRange)

\* every command line within the bounds, against the slow responder
InitLate ==
    /\ script \in RangeScripts
    /\ start \in Starts
    /\ count \in 1..MaxCount
    /\ max_chunk \in 1..MaxChunk
    /\ stop_on_illegal \in BOOLEAN
    /\ mode = "late" /\ bad = -1 /\ fault = "none"
    /\ InitLoop

SpecLate == InitLate /\ [][NextRange]_vars


(***************************************************************************)
(* The polling loop: main of dump_ongoing.py with read_all_registers and   *)
(* signal_handler.                                                         *)
(***************************************************************************)
MaxIter == 2         \* iterations of the polling loop in one run
IntervalTicks == 2   \* --interval, in seconds

\* (start_addr, count) of each block
REGISTERS_TO_READ == <<<<1, 11>>, <<64, 4>>, <<101, 8>>>>
Blocks == {1, 2, 3}

\* what the responder may send back to a block read
PollReplyKinds == {"good", "silent", "exception", "badcrc", "short", "odd", "empty", "long"}

PollReply(s, fc, a, q, k) ==
    CASE k = "odd" -> Frame(<<s, fc, 2 * q - 1>> \o SubSeq(RegBytes(a, q), 1, 2 * q - 1), TRUE)
      [] k = "empty" -> Frame(<<s, fc, 0>>, TRUE)
      [] k = "long" -> Frame(<<s, fc, 2 * q + 2>> \o RegBytes(a, q + 1), TRUE)
      [] OTHER -> RangeReply(s, fc, a, q, k)

\* the outcome of every block read
PollTable ==
    [b \in Blocks, k \in PollReplyKinds |->
        read_registers(RSlave, REGISTERS_TO_READ[b][1], REGISTERS_TO_READ[b][2],
                       PollReply(RSlave, 4, REGISTERS_TO_READ[b][1],
                                 REGISTERS_TO_READ[b][2], k))]

\* the keys of the dict read_registers returns
keys_of(a, regs) == { a + i - 1 : i \in 1..Len(regs) }

InitPoll ==
    /\ fn = "ongoing" /\ slave = RSlave /\ func = 4
    /\ IdleTxn
    /\ IdleRange
    /\ IdleChan
    /\ running = TRUE /\ ppc = "top" /\ blk = 0 /\ all_data = {}
    /\ read_count = 0 /\ rows = 0 /\ nerr = 0 /\ ticks = 0
    /\ iters = 0 /\ nsucc = 0 /\ lastrow = "none" /\ reads = {}

PollRest == <<txnVars, rangeVars, respVars, histVars>>

\* a read_all_registers that would go on filling the dict of the pass before
all_data_kept(d) == d

\* all_data = {} at the start of read_all_registers
new_all_data(d) == {}

\* while running: true, read_all_registers is entered
P_Top ==
    /\ ppc = "top" /\ running
    /\ iters < MaxIter
    /\ iters' = iters + 1
    /\ blk' = 1 /\ all_data' = new_all_data(all_data) /\ nsucc' = 0 /\ lastrow' = "none"
    /\ ppc' = "block"
    /\ UNCHANGED <<running, read_count, rows, nerr, ticks, reads, chanVars, PollRest>>

\* while running: false, ser.close()
P_Close ==
    /\ ppc = "top" /\ ~running
    /\ ppc' = "closed"
    /\ UNCHANGED <<running, blk, all_data, read_count, rows, nerr, ticks>>
    /\ UNCHANGED <<iters, nsucc, lastrow, reads, chanVars, PollRest>>

\* read_registers: the request of the block goes out
P_Call ==
    /\ ppc = "block"
    /\ \E k \in PollReplyKinds : reply' = k
    /\ outstanding' = outstanding + 1
    /\ ppc' = awaiting(ppc)
    /\ UNCHANGED <<running, blk, all_data, read_count, rows, nerr, ticks>>
    /\ UNCHANGED <<iters, nsucc, lastrow, reads, PollRest>>

\* read_registers returns (or raises) and read_all_registers goes on
P_Read ==
    /\ ppc = "bwait"
    /\ LET r == PollTable[blk, reply]
       IN  IF r.kind = "IndexError"
           THEN /\ ppc' = "crashed"
                /\ UNCHANGED <<blk, all_data, nsucc, reads>>
           ELSE /\ all_data' = IF r.kind = "OK" /\ r.regs # <<>>
                               THEN all_data \cup keys_of(REGISTERS_TO_READ[blk][1], r.regs)
                               ELSE all_data
                /\ nsucc' = IF r.kind = "OK" THEN nsucc + 1 ELSE nsucc
                /\ reads' = IF r.kind = "OK" THEN reads \cup {<<iters, blk>>} ELSE reads
                /\ IF blk < Len(REGISTERS_TO_READ)
                   THEN blk' = blk + 1 /\ ppc' = "block"
                   ELSE blk' = blk /\ ppc' = "sink"
    /\ Returned
    /\ UNCHANGED <<running, read_count, rows, nerr, ticks, iters, lastrow, PollRest>>

\* the row or the error line, then if running: the sleep begins
P_Sink ==
    /\ ppc = "sink"
    /\ IF all_data # {}
       THEN /\ read_count' = read_count + 1
            /\ rows' = rows + 1
            /\ lastrow' = "row"
            /\ UNCHANGED nerr
       ELSE /\ nerr' = nerr + 1
            /\ lastrow' = "error"
            /\ UNCHANGED <<read_count, rows>>
    /\ IF running
       THEN ppc' = "sleep" /\ ticks' = IntervalTicks
       ELSE ppc' = "top" /\ ticks' = ticks
    /\ UNCHANGED <<running, blk, all_data, iters, nsucc, reads, chanVars, PollRest>>

\* while running and time.time() < sleep_until: time.sleep(1)
P_Tick ==
    /\ ppc = "sleep" /\ running /\ ticks > 0
    /\ ticks' = ticks - 1
    /\ UNCHANGED <<running, ppc, blk, all_data, read_count, rows, nerr>>
    /\ UNCHANGED <<iters, nsucc, lastrow, reads, chanVars, PollRest>>

\* the sleep loop ends: time is up or running is false
P_Wake ==
    /\ ppc = "sleep" /\ (~running \/ ticks = 0)
    /\ ppc' = "top"
    /\ UNCHANGED <<running, blk, all_data, read_count, rows, nerr, ticks>>
    /\ UNCHANGED <<iters, nsucc, lastrow, reads, chanVars, PollRest>>

\* SIGINT or SIGTERM: signal_handler clears running
signal_handler ==
    /\ ppc \notin {"idle", "closed", "crashed"}
    /\ running
    /\ running' = FALSE
    /\ UNCHANGED <<ppc, blk, all_data, read_count, rows, nerr, ticks>>
    /\ UNCHANGED <<iters, nsucc, lastrow, reads, chanVars, PollRest>>

\* the steps of the program
PollSteps == P_Top \/ P_Close \/ P_Call \/ P_Read \/ P_Sink \/ P_Tick \/ P_Wake

NextPoll == PollSteps \/ signal_handler

SpecPoll == InitPoll /\ [][NextPoll]_vars

\* the program is never suspended for good; no signal need ever come
FairPoll == SpecPoll /\ WF_vars(PollSteps)

\* both loops, each on its channel
InitLoops == InitRange \/ InitPoll

NextLoops == NextRange \/ NextPoll

SpecLoops == InitLoops /\ [][NextLoops]_vars


(***************************************************************************)
(* A request built, answered by the book, and the answer parsed.           *)
(***************************************************************************)
MaxTripQty == 3      \* registers per request of these runs

TripSlaves == {0, 1, 17, 128, 255}
TripStarts == {0, 101, 256, 65000}

\* the well-formed normal response to a request frame, with the data given
WellFormed(req, data) == Frame(<<req[1], req[2], Len(data)>> \o data, TRUE)

InitTrip ==
    /\ fn \in Scripts
    /\ slave \in TripSlaves
    /\ func \in (IF fn = "one" THEN Funcs ELSE {FuncOf(fn)})
    /\ t_start \in TripStarts
    /\ t_qty \in 1..MaxTripQty
    /\ tx = <<>>
    /\ rx = <<>>
    /\ result = NoResult
    /\ tpc = "build"
    /\ attempt = 0 /\ retries = 0
    /\ IdleRange
    /\ IdleChan
    /\ IdlePoll

TripRest == <<rangeVars, respVars, histVars, chanVars, pollVars>>

\* the request frame is built and written
Trip_Build ==
    /\ tpc = "build"
    /\ tx' = <<Request(fn, slave, func, t_start, t_qty)>>
    /\ tpc' = "sent"
    /\ UNCHANGED <<fn, slave, func, t_start, t_qty, attempt, retries, rx, result, TripRest>>

\* the responder answers the frame it has received
Trip_Respond ==
    /\ tpc = "sent"
    /\ \E seed \in DataSeeds : rx' = WellFormed(tx[1], Data(2 * t_qty, seed))
    /\ tpc' = "wait"
    /\ UNCHANGED <<fn, slave, func, t_start, t_qty, attempt, retries, tx, result, TripRest>>

NextTrip == Trip_Build \/ Trip_Respond \/ T_Read

SpecTrip == InitTrip /\ [][NextTrip]_vars


(***************************************************************************)
(* modbus_read_one.py: one read, tried again after a short reply.          *)
(***************************************************************************)
MaxRetries == 2      \* largest --retries of these runs

\* the reports after which the loop goes round again while attempts remain
ShortKinds == {"NO RESPONSE (header)", "SHORT RESPONSE"}

\* if len(head) < 3 / if len(tail) < bytecount + 2: if attempt < args.retries: continue
tries_again(kind, a, r) == kind \in ShortKinds /\ a < r

InitOne ==
    /\ fn = "one"
    /\ slave \in Slaves
    /\ func \in Funcs
    /\ t_start \in TStarts
    /\ t_qty \in 1..MaxQty
    /\ tx = <<>>
    /\ rx = <<>>
    /\ result = NoResult
    /\ tpc = "for"
    /\ attempt = 0
    /\ retries \in (-1)..MaxRetries
    /\ IdleRange
    /\ IdleChan
    /\ IdlePoll

\* for attempt in range(args.retries + 1): the next pass begins
O_For ==
    /\ tpc = "for" /\ attempt < retries + 1
    /\ tpc' = "call"
    /\ UNCHANGED <<fn, slave, func, t_start, t_qty, attempt, retries, tx, rx, result, TripRest>>

\* the reads and the parse of one pass: continue, or a report and return
O_Read ==
    /\ fn = "one" /\ tpc = "wait"
    /\ LET r == read_one(slave, t_start, t_qty, rx)
       IN  IF tries_again(r.kind, attempt, retries)
           THEN /\ attempt' = attempt + 1
                /\ tpc' = "for"
                /\ UNCHANGED result
           ELSE /\ result' = r
                /\ tpc' = "ret"
                /\ UNCHANGED attempt
    /\ UNCHANGED <<fn, slave, func, t_start, t_qty, retries, tx, rx, TripRest>>

\* the range is exhausted: the report after the loop
O_After ==
    /\ tpc = "for" /\ attempt >= retries + 1
    /\ result' = Res("NO RESPONSE (after retries)", <<>>, -1, "unchecked", 0)
    /\ tpc' = "ret"
    /\ UNCHANGED <<fn, slave, func, t_start, t_qty, attempt, retries, tx, rx, TripRest>>

NextOne == O_For \/ T_Reset \/ T_Write \/ O_Read \/ O_After

SpecOne == InitOne /\ [][NextOne]_vars


(***************************************************************************)
(* A request built from any arguments, the invalid ranges included.        *)
(***************************************************************************)
BuildSlaves == {0, 1, 255, 256}
BuildStarts == {0, 101, 65535, 65536, 65636}
BuildQtys == {0, 1, 2, 125, 65536, 65537}

\* bytes([...]) raises ValueError for an element outside 0..255: only the
\* slave byte of build_req in modbus_dump_input.py and dump_ongoing.py is
\* not masked
build_raises(f, s) == f \in {"input", "ongoing"} /\ s \notin 0..255

InitBuild ==
    /\ fn \in Scripts
    /\ slave \in BuildSlaves
    /\ func \in (IF fn = "one" THEN Funcs ELSE {FuncOf(fn)})
    /\ t_start \in BuildStarts
    /\ t_qty \in BuildQtys
    /\ tx = <<>>
    /\ rx = <<>>
    /\ result = NoResult
    /\ tpc = "args"
    /\ attempt = 0 /\ retries = 0
    /\ IdleRange
    /\ IdleChan
    /\ IdlePoll

\* the build function of the script is called: a frame, or ValueError
Build_Apply ==
    /\ tpc = "args"
    /\ IF build_raises(fn, slave)
       THEN /\ tx' = tx
            /\ result' = Res("ValueError", <<>>, -1, "unchecked", 0)
       ELSE /\ tx' = <<Request(fn, slave, func, t_start, t_qty)>>
            /\ result' = Res("BUILT", <<>>, -1, "unchecked", 0)
    /\ tpc' = "built"
    /\ UNCHANGED <<fn, slave, func, t_start, t_qty, attempt, retries, rx, TripRest>>

NextBuild == Build_Apply

SpecBuild == InitBuild /\ [][NextBuild]_vars


(***************************************************************************)
(* The checksum of a byte sequence, as each script computes it.            *)
(***************************************************************************)
MaxCrcLen == 3       \* length of the byte sequences tried, besides the two below

CrcBytes == {0, 1, 49, 128, 170, 255}

\* "123456789" and the request 01 03 00 00 00 0A
CrcKnown == {<<49, 50, 51, 52, 53, 54, 55, 56, 57>>, <<1, 3, 0, 0, 0, 10>>}

CrcInputs == UNION { [1..n -> CrcBytes] : n \in 0..MaxCrcLen } \cup CrcKnown

InitCrc ==
    /\ fn = "crc" /\ slave = 0 /\ func = 0 /\ t_start = 0 /\ t_qty = 0
    /\ tx = <<>>
    /\ rx \in CrcInputs
    /\ result = NoResult
    /\ tpc = "crc"
    /\ attempt = 0 /\ retries = 0
    /\ IdleRange
    /\ IdleChan
    /\ IdlePoll

\* crc16_modbus(rx) in modbus_dump_holding.py, modbus_dump_input.py,
\* dump_ongoing.py and modbus_read_one.py, in this order
Crc_Apply ==
    /\ tpc = "crc"
    /\ result' = Res("CRC", <<crc16_modbus(rx), crc16_modbus_expr(rx),
                              crc16_modbus_expr(rx), crc16_modbus_expr(rx)>>,
                     -1, "unchecked", Len(rx))
    /\ tpc' = "ret"
    /\ UNCHANGED <<fn, slave, func, t_start, t_qty, attempt, retries, tx, rx, TripRest>>

NextCrc == Crc_Apply

SpecCrc == InitCrc /\ [][NextCrc]_vars


(***************************************************************************)
(* Properties of the range loop.                                           *)
(***************************************************************************)
CeilDiv(a, b) == (a + b - 1) \div b

\* the least k with 2^k >= n
CeilLog2(n) == CHOOSE k \in 0..16 : 2 ^ k >= n /\ \A j \in 0..(k - 1) : 2 ^ j < n

\* the addresses printed, in the order printed
OutAddrs == [i \in 1..Len(out) |-> out[i][1]]

\* m, m+1, ..., n as a sequence
Run(m, n) == [i \in 1..(n - m + 1) |-> m + i - 1]

\* every line printed shows the register's value at the responder
OutValuesRight == \A i \in 1..Len(out) : out[i][2] = RegVal(out[i][1])

\* C1: on the success path of a range with count > max_chunk, at least
\* ceil(count / max_chunk) transactions are made, none for more than
\* max_chunk registers, and the addresses printed are start .. start+count-1,
\* each once and in increasing order.
C1_SuccessPath ==
    (nfail = 0 /\ count > max_chunk) =>
        /\ ntxn > 0 => (last.qty >= 1 /\ last.qty <= max_chunk)
        /\ pc = "done" =>
              /\ ntxn >= CeilDiv(count, max_chunk)
              /\ OutAddrs = Run(start, start + count - 1)
              /\ OutValuesRight

C1_Witness ==
    /\ pc = "done" /\ nfail = 0 /\ mode = "good"
    /\ max_chunk > 1 /\ count > max_chunk /\ count % max_chunk # 0
    /\ ntxn = CeilDiv(count, max_chunk)

\* C2: without --stop-on-illegal, when one register fails in every
\* transaction that covers it and nothing else fails, the loop reaches the end
\* of the range and prints every address of the range but that one, each once.
C2_SkipOne ==
    (mode = "one" /\ ~stop_on_illegal /\ pc = "done") =>
        /\ addr = start + count
        /\ stopped = -1
        /\ OutAddrs = Run(start, bad - 1) \o Run(bad + 1, start + count - 1)
        /\ OutValuesRight

C2_Witness ==
    /\ mode = "one" /\ ~stop_on_illegal /\ pc = "done"
    /\ max_chunk > 2 /\ bad > start /\ bad < start + count - 1
    /\ Len(out) = count - 1

\* C3 (as claimed): with --stop-on-illegal, once a size-1 transaction at
\* address a has failed the loop is over: the failure is reported for a, and
\* no further request is written (so none starting at or beyond a+1).
C3_StopAtOnce ==
    (stop_on_illegal /\ fail1 # -1) =>
        /\ pc = "done"
        /\ stopped = fail1
        /\ last.addr = fail1 /\ last.qty = 1 /\ ~last.ok

\* C4 (as claimed): with one register always failing, the first size-1
\* request at that register is written after at most ceil(log2(max_chunk))
\* failed transactions.
C4_BisectionBound ==
    (mode = "one" /\ first1 # -1) => first1 <= CeilLog2(max_chunk)

\* C5: the range loop ends after finitely many transactions whatever the
\* responder does, and a transaction that follows a failed one at the same
\* cursor never asks for more registers than the failed one.
C5_Terminates ==
    /\ <>(pc = "done")
    /\ [](ntxn < MaxTxn)
    /\ [][(ntxn' = ntxn + 1 /\ ntxn > 0 /\ ~last.ok /\ last'.addr = last.addr)
            => last'.qty <= last.qty]_vars

C5_Witness ==
    /\ pc = "done" /\ mode = "dead" /\ ~stop_on_illegal
    /\ count > 2 /\ max_chunk > 2 /\ nfail = ntxn /\ out = <<>>

\* the documented scenario
Scenario ==
    /\ start = 101 /\ count = 8 /\ max_chunk = 8
    /\ mode = "one" /\ bad = 105 /\ ~stop_on_illegal

ErrorKind(kind) ==
    CASE kind = "OK" -> "Ok"
      [] kind = "BADCNT" -> "UnexpectedByteCount"
      [] kind \in {"BADCRC", "EXC_BADCRC", "CRC"} -> "ChecksumMismatch"
      [] kind = "DESYNC" -> "AddressMismatch"
      [] kind = "EXCEPTION" -> "ProtocolException"
      [] kind \in {"TIMEOUT_OR_SHORT", "SHORT", "EXC_SHORT", "NO RESPONSE (header)",
                   "SHORT RESPONSE", "SHORT EXCEPTION"} -> "Short"
      [] OTHER -> "Unspecified"

\* the bytes received are a whole normal response
WholeNormal(f) == Len(f) >= 5 /\ ~HighBit(f[2]) /\ Len(f) = f[3] + 5

\* the bytes received are a whole exception response
WholeException(f) == Len(f) = 5 /\ HighBit(f[2])

\* the trailing two bytes, low byte first, are the checksum of the bytes before
ChecksumRight(f) == crc_rx_of(f) = crc16_modbus(body_of(f))

\* C7 (as claimed): read_holding_chunk, read_block and read_registers reject
\* a checksum-valid normal response whose byte count is not twice the number
\* of registers requested, as UnexpectedByteCount and without register
\* values; a successful result holds exactly the registers requested.
C7_ByteCount ==
    (tpc = "ret" /\ fn \in {"holding", "input", "ongoing"}) =>
        /\ (WholeNormal(rx) /\ ChecksumRight(rx) /\ rx[1] = slave /\ rx[3] # 2 * t_qty)
              => (ErrorKind(result.kind) = "UnexpectedByteCount" /\ result.regs = <<>>)
        /\ result.kind = "OK" => Len(result.regs) = t_qty

\* C8 (as claimed): in every script a whole response whose checksum is wrong
\* gives an error outcome and no register values.
C8_ChecksumGate ==
    (tpc = "ret" /\ (WholeNormal(rx) \/ WholeException(rx)) /\ ~ChecksumRight(rx)) =>
        (result.kind # "OK" /\ result.regs = <<>>)

\* C9 (as claimed): every transaction function reports a response whose
\* first byte is not the address of the request as AddressMismatch.
C9_AddressCheck ==
    (tpc = "ret" /\ Len(rx) >= 3 /\ rx[1] # slave) =>
        ErrorKind(result.kind) = "AddressMismatch"

\* C10 (as claimed): for a response with the high bit set in its function
\* code, read_holding_chunk and read_block take 2 bytes after the 3-byte
\* header, report ProtocolException with byte 3 as its code when the checksum
\* over the first 3 bytes is right, Short when the trailer is short and
\* ChecksumMismatch when the checksum is wrong; never success.
C10_ExceptionResponse ==
    (tpc = "ret" /\ fn \in {"holding", "input"}
       /\ Len(rx) >= 3 /\ rx[1] = slave /\ HighBit(rx[2])) =>
        /\ result.kind # "OK"
        /\ result.nread = Min(Len(rx), 5)
        /\ Len(rx) < 5 => ErrorKind(result.kind) = "Short"
        /\ (Len(rx) >= 5 /\ ~ChecksumRight(SubSeq(rx, 1, 5)))
              => ErrorKind(result.kind) = "ChecksumMismatch"
        /\ (Len(rx) >= 5 /\ ChecksumRight(SubSeq(rx, 1, 5)))
              => (ErrorKind(result.kind) = "ProtocolException" /\ result.code = rx[3])


\* C11: in a transaction of any script the inbound buffer is discarded, then
\* one 8-byte request frame is written, then the reads begin: the request is
\* written with the inbound buffer empty, no result is read before it is
\* written, no second request is written, and the bytes parsed are the reply
\* alone.
C11_StepOrder ==
    /\ [](Len(tx) <= 1 /\ \A i \in 1..Len(tx) : Len(tx[i]) = 8)
    /\ [][tx' # tx => (rx = <<>> /\ tx = <<>> /\ result = NoResult)]_vars
    /\ [][result' # result => (Len(tx) = 1 /\ tx' = tx)]_vars
    /\ [](tpc = "ret" =>
            /\ tx = <<Request(fn, slave, func, t_start, t_qty)>>
            /\ rx \in ReplyTable[slave, func]
            /\ result = Transaction(fn, slave, t_start, t_qty, rx))

C11_Witness ==
    /\ tpc = "ret" /\ Len(tx) = 1 /\ Len(tx[1]) = 8
    /\ result.kind = "OK" /\ Len(result.regs) = t_qty


(***************************************************************************)
(* Properties of the channel and of the polling loop.                      *)
(***************************************************************************)
\* C12: on the channel of a loop a request is written only when every
\* request written before has had its outcome: never two outstanding, in
\* dump_range with its immediate retry, in the loop of modbus_dump_input.py
\* and across the blocks and iterations of the polling loop.
C12_NoPipelining ==
    /\ [](outstanding \in {0, 1})
    /\ [](outstanding = 1 <=> (pc \in {"wait", "rwait"} \/ ppc = "bwait"))
    /\ [][outstanding' > outstanding => (outstanding = 0 /\ reply = "none")]_vars

C12_Witness ==
    /\ script = "holding" /\ pc = "rwait" /\ outstanding = 1
    /\ ntxn >= 1 /\ ~last.ok /\ last.addr = addr /\ ~last.retry

\* iterations that have handed something to the sink
Completed == IF iters > 0 /\ lastrow = "none" THEN iters - 1 ELSE iters

\* C13 (as claimed): an iteration appends a row exactly when one of its block
\* reads succeeded (read_registers returned a dict, not None); when all of
\* them failed it prints the error line instead, and rows and read_count
\* stay as they were: each completed iteration gives one row or one error.
C13_TotalFailure ==
    /\ rows = read_count
    /\ rows + nerr = Completed
    /\ lastrow # "none" =>
          /\ (lastrow = "row") <=> (nsucc > 0)
          /\ (lastrow = "error") <=> (nsucc = 0)

\* C14 (as claimed): once signal_handler has cleared running, no iteration
\* is started; the iteration in flight goes through its remaining block
\* reads to the sink; a sleep ends at its next check; and the loop exits and
\* closes the channel in the end.
C14_Cancellation ==
    /\ [][~running => iters' = iters]_vars
    /\ [][(~running /\ ppc \in {"block", "bwait"}) => ppc' \in {"block", "bwait", "sink"}]_vars
    /\ [][(~running /\ ppc = "sink" /\ ppc' # ppc) => (lastrow' # "none" /\ ppc' = "top")]_vars
    /\ [][(~running /\ ppc = "sleep") => (ppc' = "top" /\ ticks' = ticks)]_vars
    /\ (~running /\ ppc # "idle") ~> (ppc = "closed")

\* C15 (as claimed): whatever bytes answer a block read, the polling loop
\* does not die: the process is never ended by an exception, and the loop is
\* left only after signal_handler has cleared running.
C15_NeverDies ==
    /\ ppc # "crashed"
    /\ ppc = "closed" => ~running


(***************************************************************************)
(* Properties of the frames.                                               *)
(***************************************************************************)
\* C16: the well-formed response to the request built for (address,
\* operation, start, count) parses to success with exactly count values, the
\* i-th being data[2i]*256 + data[2i+1] (counted from 0) and belonging to
\* address start + i.
C16_RoundTrip ==
    tpc = "ret" =>
        /\ result.kind = "OK"
        /\ Len(result.regs) = t_qty
        /\ \A i \in 1..t_qty : result.regs[i] = rx[2 * i + 2] * 256 + rx[2 * i + 3]
        /\ \A i \in 1..t_qty : printed(t_start, result.regs)[i][1] = t_start + i - 1
        /\ keys_of(t_start, result.regs) = t_start..(t_start + t_qty - 1)

C16_Witness ==
    /\ tpc = "ret" /\ fn = "holding" /\ slave = 255 /\ t_qty = 2 /\ t_start = 65000
    /\ result.kind = "OK" /\ result.regs[1] # result.regs[2]
    /\ result.regs[1] % 256 # result.regs[1] \div 256

\* the reference algorithm on a register of 16 bits, bit 0 the lowest
RefBits == [0..15 -> {0, 1}]

\* the byte is exclusive-ored into the low byte of the register
RefXorByte[c \in RefBits, b \in 0..255] ==
    [i \in 0..15 |-> IF i < 8 THEN (c[i] + ((b \div (2 ^ i)) % 2)) % 2 ELSE c[i]]

\* one shift to the right; the generator 0xA001 (bits 15, 13 and 0) is
\* exclusive-ored in when the bit shifted out was 1
RefShift[c \in RefBits] ==
    [i \in 0..15 |->
        LET sh == IF i = 15 THEN 0 ELSE c[i + 1]
        IN  IF c[0] = 1 /\ i \in {0, 13, 15} THEN 1 - sh ELSE sh]

RefByte[c \in RefBits, b \in 0..255] ==
    RefShift[RefShift[RefShift[RefShift[RefShift[RefShift[RefShift[RefShift[RefXorByte[c, b]]]]]]]]]

RECURSIVE RefAt(_, _)
RefAt(data, i) == IF i = 0 THEN [j \in 0..15 |-> 1] ELSE RefByte[RefAt(data, i - 1), data[i]]

\* the bits of a 16-bit value
BitsOf(n) == [i \in 0..15 |-> (n \div (2 ^ i)) % 2]

\* C17: for every byte sequence the four copies of crc16_modbus return the
\* same value, it lies in 0..65535, and it is the value of the reference
\* algorithm (0x4B37 for "123456789").
C17_Checksum ==
    (fn = "crc" /\ tpc = "ret") =>
        /\ \A i \in 1..4 : result.regs[i] \in 0..65535
        /\ \A i \in 1..4 : result.regs[i] = result.regs[1]
        /\ BitsOf(result.regs[1]) = RefAt(rx, Len(rx))
        /\ rx = <<49, 50, 51, 52, 53, 54, 55, 56, 57>> => result.regs[1] = 19255

C17_Witness ==
    /\ fn = "crc" /\ tpc = "ret"
    /\ rx = <<49, 50, 51, 52, 53, 54, 55, 56, 57>>
    /\ result.regs = <<19255, 19255, 19255, 19255>>


(***************************************************************************)
(* The two dumpers side by side.                                           *)
(***************************************************************************)
\* the lines printed, as a set
Lines(o) == { o[i] : i \in 1..Len(o) }

\* C18 (as claimed): against a responder that gives the same outcome for
\* the same requested sub-range, dump_range ends with the same addresses and
\* values printed, and stopped at the same address, as the loop of
\* modbus_dump_input.py started with the same start, count, chunk and
\* stop-on-illegal setting.
C18_DumpersMatch ==
    (script = "holding" /\ pc = "done" /\ mode # "flaky") =>
        LET t == run_input[start, count, max_chunk, stop_on_illegal, mode, bad, fault]
        IN  /\ Lines(out) = Lines(t.out)
            /\ stopped = t.stopped


(***************************************************************************)
(* Properties of the chunk size.                                           *)
(***************************************************************************)
\* C19 (as claimed): the request written after a successful transaction
\* asks for min(max_chunk, addresses remaining) registers, max_chunk being
\* the value given on the command line.
C19_ChunkReset ==
    (pc = "wait" /\ ntxn > 0 /\ last.ok) =>
        next_qty(chunk, start + count - addr) = Min(max_chunk, start + count - addr)

\* the size of the request that is on the channel
Pending == IF pc = "rwait" THEN new_qty ELSE next_qty(chunk, start + count - addr)

\* C20 (as claimed): the request written after a failed transaction of size
\* q > 1 at cursor c is for the same cursor and for max(1, q div 2)
\* registers; so q is not asked for again at c before a success or a skip.
C20_BisectionStep ==
    (pc \in {"wait", "rwait"} /\ ntxn > 0 /\ ~last.ok /\ last.qty > 1) =>
        /\ addr = last.addr
        /\ Pending = Max(1, last.qty \div 2)


(***************************************************************************)
(* Properties of the failure reports.                                      *)
(***************************************************************************)
\* block reads of the iteration that returned None, once it has reached the sink
FailedBlocks == Len(REGISTERS_TO_READ) - nsucc

\* C21 (as claimed): each failed transaction of a loop gives one failure
\* report: in the range loops the reports printed are as many as the failed
\* transactions, and a polling iteration has reported as many failures as
\* block reads of it have failed.
C21_NoSilentRecovery ==
    /\ script \in RangeScripts => nlog = nfail
    /\ (ppc \notin {"idle", "crashed"} /\ lastrow # "none") =>
          (IF lastrow = "error" THEN 1 ELSE 0) = FailedBlocks


(***************************************************************************)
(* Properties of the requests of the range loop.                           *)
(***************************************************************************)
\* C22: every request written by a range loop, the immediate retry of
\* dump_range included, asks for q registers with 1 <= q <= max_chunk and
\* q <= end - cursor, so that it lies inside the range, and the cursor never
\* leaves start .. end (remaining being end - cursor in modbus_dump_input.py).
C22_RequestBounds ==
    script \in RangeScripts =>
        /\ start <= addr /\ addr <= start + count
        /\ script = "input" => remaining = start + count - addr
        /\ pc \in {"wait", "rwait"} =>
              /\ 1 <= Pending /\ Pending <= max_chunk
              /\ Pending <= start + count - addr
        /\ ntxn > 0 =>
              /\ 1 <= last.qty /\ last.qty <= max_chunk
              /\ start <= last.addr /\ last.addr + last.qty <= start + count

C22_Witness ==
    /\ script = "holding" /\ pc = "rwait" /\ addr > start
    /\ ~last.ok /\ last.addr = addr
    /\ last.qty = start + count - addr /\ last.qty < max_chunk
    /\ Pending = last.qty \div 2


(***************************************************************************)
(* Properties against a responder that answers late.                       *)
(***************************************************************************)
\* no address is printed twice
OutOnce == \A i, j \in 1..Len(out) : OutAddrs[i] = OutAddrs[j] => i = j

\* C23 (as claimed): when the answer to a request that has timed out comes
\* in after the discard and the write of the next transaction, that
\* transaction does not succeed with it: every line printed shows an address
\* once, with the value the responder holds at that address.
C23_NoStaleData ==
    mode = "late" =>
        /\ (ntxn > 0 /\ last.kind = "late") => ~last.ok
        /\ OutOnce
        /\ OutValuesRight


(***************************************************************************)
(* Properties of the skip.                                                 *)
(***************************************************************************)
\* the request on the channel follows a size-1 failure that was skipped (a
\* failed retry of size 1 is not skipped: dump_range asks for the address again)
AfterSkip ==
    /\ pc = "wait" /\ ~stop_on_illegal
    /\ ntxn > 0 /\ ~last.ok /\ last.qty = 1 /\ ~last.retry

\* the cursor is one past the failed address, which has no line printed
SkippedOne == addr = last.addr + 1 /\ \A i \in 1..Len(out) : OutAddrs[i] # last.addr

\* C24 (as claimed): without --stop-on-illegal, after a size-1 failure at
\* address a the cursor is a+1, nothing is printed for a, and the next
\* request asks for min(max_chunk, addresses remaining) registers.
C24_SkipResets ==
    AfterSkip =>
        /\ SkippedOne
        /\ Pending = Min(max_chunk, start + count - addr)


(***************************************************************************)
(* Properties of the build functions.                                      *)
(***************************************************************************)
\* start and count of 16 bits, count > 0 and start + count within the
\* 16-bit address space
ValidRange(a, q) == a \in 0..65535 /\ q \in 1..65535 /\ a + q <= 65536

\* the start and count fields of a request frame
FrameStart(f) == f[3] * 256 + f[4]
FrameCount(f) == f[5] * 256 + f[6]

\* C25 (as claimed): for an address in 0..255 the build function fails
\* exactly when the range is invalid; for a valid range it returns a frame of
\* 8 bytes, and no frame is returned whose start and count fields are those of
\* another range than the one given.
C25_BuildPrecondition ==
    (tpc = "built" /\ slave \in 0..255) =>
        /\ (result.kind # "BUILT") <=> ~ValidRange(t_start, t_qty)
        /\ ValidRange(t_start, t_qty) => (Len(tx) = 1 /\ Len(tx[1]) = 8)
        /\ \A i \in 1..Len(tx) : FrameStart(tx[i]) = t_start /\ FrameCount(tx[i]) = t_qty


(***************************************************************************)
(* Properties of the snapshot.                                             *)
(***************************************************************************)
\* the addresses a reply to block b can give (one more when the reply is long)
AddrsOf(b) == REGISTERS_TO_READ[b][1]..(REGISTERS_TO_READ[b][1] + REGISTERS_TO_READ[b][2])

\* C26: every address in the dict of an iteration, and so in the row written
\* from it, was read by a block read of that iteration that succeeded; a
\* block that failed in the iteration has no address in it, whatever the
\* iterations before have read.
C26_SnapshotIsolation ==
    ppc # "idle" =>
        /\ \A r \in all_data : \E b \in Blocks : <<iters, b>> \in reads /\ r \in AddrsOf(b)
        /\ \A b \in Blocks : <<iters, b>> \notin reads => all_data \cap AddrsOf(b) = {}

C26_Witness ==
    /\ iters = 2 /\ lastrow = "row" /\ rows = 2
    /\ reads = {<<1, 1>>, <<1, 2>>, <<1, 3>>, <<2, 1>>}
    /\ all_data = 1..11


(***************************************************************************)
(* Properties of the retry loop of modbus_read_one.py.                     *)
(***************************************************************************)
\* the reports printed inside the loop
LoopReports == {"NO RESPONSE (header)", "SHORT EXCEPTION", "EXCEPTION", "SHORT RESPONSE", "OK"}

\* at most R+1 request frames are written
WithinBudget == Len(tx) <= retries + 1 /\ attempt <= retries

\* a pass after the first follows a short header or a short body
AfterShortOnly ==
    (attempt > 0 /\ tpc \in {"for", "call"}) =>
        read_one(slave, t_start, t_qty, rx).kind \in ShortKinds

\* C27 (as claimed): with --retries R >= 0 at most R+1 request frames are
\* written; a further attempt follows only a short header or a short body
\* while attempts remain; and every run ends with one of the reports printed
\* inside the loop, never with the report after the loop.
C27_RetryBudget ==
    (fn = "one" /\ retries >= 0) =>
        /\ WithinBudget
        /\ AfterShortOnly
        /\ tpc = "ret" => result.kind \in LoopReports

=============================================================================
